---- MODULE Spec2Model ----
(***************************************************************************)
(* Generational-index entity allocator (EntityManager) and dense           *)
(* component store (Component) of src/lib.rs.                              *)
(*                                                                         *)
(* Vec<T> is a sequence; Rust's 0-based index i is position i + 1.         *)
(* Option<usize> is <<>> (None) or <<i>> (Some(i)).                        *)
(***************************************************************************)
EXTENDS Integers, Sequences, FiniteSets, TLC

\* ---- bounds of the model ------------------------------------------------
\* largest table length allocate may grow to
MaxSlots == 3
\* largest generation a slot may reach (usize overflow is out of scope)
MaxGen == 2
\* largest non-default value a caller stores
MaxVal == 2
\* most calls a caller makes with a handle built by Entity::new
MaxForged == 1
\* most handles the caller of a Component obtains from allocate
MaxHandles == 2

VARIABLES
    em,        \* EntityManager: free_entities, generations, first_free
    comp,      \* Component: values
    issued,    \* handles returned by allocate so far
    retired,   \* handles on which a deallocate found the handle alive
    freed,     \* slots deallocated and not yet reallocated, oldest first
    written,   \* slot index -> value last written through set / get_mut
    forged,    \* calls made so far with a handle allocate never returned
    peak,      \* most allocated, not yet retired handles held at one time
    last       \* the last call: operation, arguments, result, panic

vars == <<em, comp, issued, retired, freed, written, forged, peak, last>>

\* ---- Option<usize> ------------------------------------------------------
None == <<>>
Some(i) == <<i>>

\* ---- Vec helpers --------------------------------------------------------
\* vec[i]: the caller has checked i < vec.len()
At(vec, i) == vec[i + 1]
\* vec[i] = x
Put(vec, i, x) == [vec EXCEPT ![i + 1] = x]
\* the bounds check of the Index / IndexMut impl: panics when FALSE
InBounds(vec, i) == i < Len(vec)

\* V: Default
Default == 0
Values == 0..MaxVal

\* ---- Entity -------------------------------------------------------------
Entity_new(index, generation) == [index |-> index, generation |-> generation]

\* ---- EntityManager ------------------------------------------------------
\* mutant: the manager starts with an empty free list
EntityManager_new_NoFree ==
    [free_entities |-> <<None>>, generations |-> <<0>>, first_free |-> None]

EntityManager_new ==
    [free_entities |-> <<None>>, generations |-> <<0>>, first_free |-> Some(0)]

\* mutant: the comparison accepts every generation up to the current one
is_alive_Le(self, e) == e.generation <= At(self.generations, e.index)

is_alive(self, e) == e.generation = At(self.generations, e.index)

\* the slots reachable from first_free by following free_entities
RECURSIVE Walk(_, _, _)
Walk(self, link, seen) ==
    IF link = None \/ link[1] \in seen
    THEN seen
    ELSE Walk(self, At(self.free_entities, link[1]), seen \cup {link[1]})

FreeSlots(self) == Walk(self, self.first_free, {})

\* mutant: the popped entity always carries generation 0
allocate_Gen0(self) ==
    IF self.first_free # None
    THEN LET index == self.first_free[1] IN
         [self |-> [self EXCEPT !.first_free = At(self.free_entities, index)],
          ret  |-> Entity_new(index, 0)]
    ELSE LET index == Len(self.free_entities) IN
         [self |-> [free_entities |-> Append(self.free_entities, None),
                    generations   |-> Append(self.generations, 0),
                    first_free    |-> None],
          ret  |-> Entity_new(index, 0)]

\* mutant: growth forgets free_entities.push(None)
allocate_NoLinkPush(self) ==
    IF self.first_free # None
    THEN LET index == self.first_free[1] IN
         [self |-> [self EXCEPT !.first_free = At(self.free_entities, index)],
          ret  |-> Entity_new(index, At(self.generations, index))]
    ELSE LET index == Len(self.generations) IN
         [self |-> [free_entities |-> self.free_entities,
                    generations   |-> Append(self.generations, 0),
                    first_free    |-> None],
          ret  |-> Entity_new(index, 0)]

\* mutant: the popped slot's link is reset to None
allocate_ClearLink(self) ==
    IF self.first_free # None
    THEN LET index == self.first_free[1] IN
         [self |-> [free_entities |-> Put(self.free_entities, index, None),
                    generations   |-> self.generations,
                    first_free    |-> At(self.free_entities, index)],
          ret  |-> Entity_new(index, At(self.generations, index))]
    ELSE LET index == Len(self.free_entities) IN
         [self |-> [free_entities |-> Append(self.free_entities, None),
                    generations   |-> Append(self.generations, 0),
                    first_free    |-> None],
          ret  |-> Entity_new(index, 0)]

\* mutant: growth leaves the new slot at the head of the free list
allocate_GrowFree(self) ==
    IF self.first_free # None
    THEN LET index == self.first_free[1] IN
         [self |-> [self EXCEPT !.first_free = At(self.free_entities, index)],
          ret  |-> Entity_new(index, At(self.generations, index))]
    ELSE LET index == Len(self.free_entities) IN
         [self |-> [free_entities |-> Append(self.free_entities, None),
                    generations   |-> Append(self.generations, 0),
                    first_free    |-> Some(index)],
          ret  |-> Entity_new(index, 0)]

\* mutant: first_free is not advanced when a slot is popped
allocate_NoPop(self) ==
    IF self.first_free # None
    THEN LET index == self.first_free[1] IN
         [self |-> self,
          ret  |-> Entity_new(index, At(self.generations, index))]
    ELSE LET index == Len(self.free_entities) IN
         [self |-> [free_entities |-> Append(self.free_entities, None),
                    generations   |-> Append(self.generations, 0),
                    first_free    |-> None],
          ret  |-> Entity_new(index, 0)]

\* mutant: a new slot is appended although a slot is free
allocate_AlwaysGrow(self) ==
    LET index == Len(self.free_entities) IN
    [self |-> [free_entities |-> Append(self.free_entities, None),
               generations   |-> Append(self.generations, 0),
               first_free    |-> self.first_free],
     ret  |-> Entity_new(index, 0)]

\* returns the new manager and the entity handed out
allocate(self) ==
    IF self.first_free # None
    THEN LET index == self.first_free[1] IN
         [self |-> [self EXCEPT !.first_free = At(self.free_entities, index)],
          ret  |-> Entity_new(index, At(self.generations, index))]
    ELSE LET index == Len(self.free_entities) IN
         [self |-> [free_entities |-> Append(self.free_entities, None),
                    generations   |-> Append(self.generations, 0),
                    first_free    |-> None],
          ret  |-> Entity_new(index, 0)]

\* mutant: the generation is not incremented
deallocate_NoBump(self, e) ==
    IF is_alive(self, e)
    THEN LET index == e.index IN
         [free_entities |-> Put(self.free_entities, index, self.first_free),
          generations   |-> self.generations,
          first_free    |-> Some(index)]
    ELSE self

\* mutant: the is_alive test is missing
deallocate_NoCheck(self, e) ==
    LET index == e.index IN
    [free_entities |-> Put(self.free_entities, index, self.first_free),
     generations   |-> Put(self.generations, index,
                           At(self.generations, index) + 1),
     first_free    |-> Some(index)]

\* mutant: the freed slot is linked behind the head (a queue of two)
deallocate_Tail(self, e) ==
    IF is_alive(self, e)
    THEN LET index == e.index
             bumped == Put(self.generations, index,
                           At(self.generations, index) + 1)
         IN IF self.first_free = None
            THEN [free_entities |-> Put(self.free_entities, index, None),
                  generations   |-> bumped,
                  first_free    |-> Some(index)]
            ELSE LET head == self.first_free[1] IN
                 [free_entities |->
                      Put(Put(self.free_entities, index,
                              At(self.free_entities, head)),
                          head, Some(index)),
                  generations   |-> bumped,
                  first_free    |-> self.first_free]
    ELSE self

\* mutant: retiring the entity of the last slot truncates the tables
deallocate_Shrink(self, e) ==
    IF is_alive(self, e)
    THEN LET index == e.index IN
         IF index + 1 = Len(self.generations) /\ index > 0
         THEN [free_entities |-> SubSeq(self.free_entities, 1, index),
               generations   |-> SubSeq(self.generations, 1, index),
               first_free    |-> self.first_free]
         ELSE [free_entities |-> Put(self.free_entities, index, self.first_free),
               generations   |-> Put(self.generations, index,
                                     At(self.generations, index) + 1),
               first_free    |-> Some(index)]
    ELSE self

\* mutant: the freed slot is not linked to the previous head
deallocate_LinkNone(self, e) ==
    IF is_alive(self, e)
    THEN LET index == e.index IN
         [free_entities |-> Put(self.free_entities, index, None),
          generations   |-> Put(self.generations, index,
                                At(self.generations, index) + 1),
          first_free    |-> Some(index)]
    ELSE self

deallocate(self, e) ==
    IF is_alive(self, e)
    THEN LET index == e.index IN
         [free_entities |-> Put(self.free_entities, index, self.first_free),
          generations   |-> Put(self.generations, index,
                                At(self.generations, index) + 1),
          first_free    |-> Some(index)]
    ELSE self

\* ---- Component ----------------------------------------------------------
Component_new == [values |-> <<>>]

RECURSIVE PushDefaults(_, _)
PushDefaults(values, n) ==
    IF n = 0 THEN values ELSE PushDefaults(Append(values, Default), n - 1)

\* mutant: Vec::resize semantics, a longer store is truncated
resize_Truncate(self, new_len) ==
    LET len == Len(self.values) IN
    IF len < new_len
    THEN [self EXCEPT !.values = PushDefaults(self.values, new_len - len)]
    ELSE [self EXCEPT !.values = SubSeq(self.values, 1, new_len)]

resize(self, new_len) ==
    LET len == Len(self.values) IN
    IF len < new_len
    THEN [self EXCEPT !.values = PushDefaults(self.values, new_len - len)]
    ELSE self

\* mutant: the value is written at the last index instead of e.index
set_Last(self, e, v) ==
    LET grown == resize(self, e.index + 1) IN
    [grown EXCEPT !.values = Put(grown.values, Len(grown.values) - 1, v)]

set(self, e, v) ==
    LET grown == resize(self, e.index + 1) IN
    [grown EXCEPT !.values = Put(grown.values, e.index, v)]

get(self, e) == At(self.values, e.index)

get_mut(self, e) == At(self.values, e.index)

\* ---- the last call ------------------------------------------------------
NoEntity == [index |-> -1, generation |-> -1]

Call(op, e, v, ret_e, ret_b, ret_v, panic) ==
    [op |-> op, e |-> e, v |-> v,
     ret_e |-> ret_e, ret_b |-> ret_b, ret_v |-> ret_v, panic |-> panic]

\* an index out of bounds: the call unwinds before it has changed anything
Panic(op, e, v) ==
    /\ last' = Call(op, e, v, NoEntity, FALSE, Default, TRUE)
    /\ UNCHANGED <<em, comp, issued, retired, freed, written, peak>>

\* s without its last occurrence of x
RemoveLast(s, x) ==
    IF \E k \in 1..Len(s) : s[k] = x
    THEN LET k == CHOOSE j \in 1..Len(s) :
                      s[j] = x /\ \A m \in (j + 1)..Len(s) : s[m] # x
         IN SubSeq(s, 1, k - 1) \o SubSeq(s, k + 1, Len(s))
    ELSE s

\* ---- handles a caller can hold -------------------------------------------
\* every handle Entity::new can build within the bounds; index MaxSlots is
\* out of range of every table
Forgeable == {Entity_new(i, g) : i \in 0..MaxSlots, g \in 0..MaxGen}

\* a call with handle e: allowed when e came from allocate or the caller has
\* forged calls left
Holds(e) ==
    /\ e \in issued \/ forged < MaxForged
    /\ forged' = IF e \in issued THEN forged ELSE forged + 1

Max(a, b) == IF a > b THEN a ELSE b

\* ---- actions --------------------------------------------------------------
Init ==
    /\ em = EntityManager_new
    /\ comp = Component_new
    /\ issued = {}
    /\ retired = {}
    /\ freed = <<>>
    /\ written = <<>>
    /\ forged = 0
    /\ peak = 0
    /\ last = Call("new", NoEntity, Default, NoEntity, FALSE, Default, FALSE)

Allocate ==
    /\ ~last.panic
    /\ em.first_free # None \/ Len(em.generations) < MaxSlots
    /\ LET r == allocate(em) IN
         /\ em' = r.self
         /\ issued' = issued \cup {r.ret}
         /\ freed' = RemoveLast(freed, r.ret.index)
         /\ peak' = Max(peak, Cardinality((issued \cup {r.ret}) \ retired))
         /\ last' = Call("allocate", NoEntity, Default, r.ret, FALSE, Default, FALSE)
    /\ UNCHANGED <<comp, retired, written, forged>>

\* mutant: retiring an entity also resets its slot of the store
Deallocate_Clear(e) ==
    /\ ~last.panic
    /\ Holds(e)
    /\ IF ~InBounds(em.generations, e.index)
       THEN Panic("deallocate", e, Default)
       ELSE /\ is_alive(em, e) => At(em.generations, e.index) < MaxGen
            /\ em' = deallocate(em, e)
            /\ comp' = IF is_alive(em, e) /\ InBounds(comp.values, e.index)
                       THEN [comp EXCEPT
                                !.values = Put(comp.values, e.index, Default)]
                       ELSE comp
            /\ retired' = IF is_alive(em, e) THEN retired \cup {e} ELSE retired
            /\ freed' = IF is_alive(em, e) THEN Append(freed, e.index) ELSE freed
            /\ last' = Call("deallocate", e, Default, NoEntity, is_alive(em, e),
                            Default, FALSE)
            /\ UNCHANGED <<issued, written, peak>>

Deallocate(e) ==
    /\ ~last.panic
    /\ Holds(e)
    /\ IF ~InBounds(em.generations, e.index)
       THEN Panic("deallocate", e, Default)
       ELSE /\ is_alive(em, e) => At(em.generations, e.index) < MaxGen
            /\ em' = deallocate(em, e)
            /\ retired' = IF is_alive(em, e) THEN retired \cup {e} ELSE retired
            /\ freed' = IF is_alive(em, e) THEN Append(freed, e.index) ELSE freed
            /\ last' = Call("deallocate", e, Default, NoEntity, is_alive(em, e),
                            Default, FALSE)
            /\ UNCHANGED <<comp, issued, written, peak>>

IsAlive(e) ==
    /\ ~last.panic
    /\ Holds(e)
    /\ IF ~InBounds(em.generations, e.index)
       THEN Panic("is_alive", e, Default)
       ELSE /\ last' = Call("is_alive", e, Default, NoEntity, is_alive(em, e),
                            Default, FALSE)
            /\ UNCHANGED <<em, comp, issued, retired, freed, written, peak>>

Set(e, v) ==
    /\ ~last.panic
    /\ Holds(e)
    /\ comp' = set(comp, e, v)
    /\ written' = [i \in DOMAIN written \cup {e.index} |->
                      IF i = e.index THEN v ELSE written[i]]
    /\ last' = Call("set", e, v, NoEntity, FALSE, Default, FALSE)
    /\ UNCHANGED <<em, issued, retired, freed, peak>>

\* mutant: get grows the store like set instead of panicking
Get_Grow(e) ==
    /\ ~last.panic
    /\ Holds(e)
    /\ comp' = resize(comp, e.index + 1)
    /\ last' = Call("get", e, Default, NoEntity, FALSE,
                    get(resize(comp, e.index + 1), e), FALSE)
    /\ UNCHANGED <<em, issued, retired, freed, written, peak>>

Get(e) ==
    /\ ~last.panic
    /\ Holds(e)
    /\ IF ~InBounds(comp.values, e.index)
       THEN Panic("get", e, Default)
       ELSE /\ last' = Call("get", e, Default, NoEntity, FALSE, get(comp, e), FALSE)
            /\ UNCHANGED <<em, comp, issued, retired, freed, written, peak>>

\* the caller assigns v through the returned &mut V
GetMut(e, v) ==
    /\ ~last.panic
    /\ Holds(e)
    /\ IF ~InBounds(comp.values, e.index)
       THEN Panic("get_mut", e, v)
       ELSE /\ comp' = [comp EXCEPT !.values = Put(comp.values, e.index, v)]
            /\ written' = [i \in DOMAIN written \cup {e.index} |->
                              IF i = e.index THEN v ELSE written[i]]
            /\ last' = Call("get_mut", e, v, NoEntity, FALSE, get_mut(comp, e), FALSE)
            /\ UNCHANGED <<em, issued, retired, freed, peak>>

\* ---- specifications --------------------------------------------------------
\* the allocator in its documented use: every handle comes from allocate
Next ==
    \/ Allocate
    \/ \E e \in issued : Deallocate(e)

Spec == Init /\ [][Next]_vars

\* the allocator when handles are also built with the public Entity::new
NextForged ==
    \/ Allocate
    \/ \E e \in issued \cup Forgeable : Deallocate(e)
    \/ \E e \in issued \cup Forgeable : IsAlive(e)

SpecForged == Init /\ [][NextForged]_vars

\* a caller that keys a Component with up to MaxHandles allocated handles
NextStore ==
    \/ Cardinality(issued) < MaxHandles /\ Allocate
    \/ \E e \in issued : Deallocate(e)
    \/ \E e \in issued : \E v \in Values : Set(e, v)
    \/ \E e \in issued : Get(e)
    \/ \E e \in issued : \E v \in Values : GetMut(e, v)

SpecStore == Init /\ [][NextStore]_vars

\* a caller that also passes handles built with Entity::new to the manager
\* and reads a store that may be shorter than the manager's tables
NextBounds ==
    \/ Cardinality(issued) < MaxHandles /\ Allocate
    \/ \E e \in issued \cup Forgeable : Deallocate(e)
    \/ \E e \in issued \cup Forgeable : IsAlive(e)
    \/ \E e \in issued : Set(e, Default)
    \/ \E e \in issued : Get(e)
    \/ \E e \in issued : GetMut(e, Default)

SpecBounds == Init /\ [][NextBounds]_vars

\* ---- properties ------------------------------------------------------------
\* current generation of the slot a handle names
GenOf(e) == At(em.generations, e.index)

\* C1: an allocated handle is alive right after allocate returns it, is not
\* alive right after the deallocate that found it alive, and is never alive
\* again, also once its slot has been handed out anew.
C1_LivenessCorrectness ==
    /\ last.op = "allocate" => is_alive(em, last.ret_e)
    /\ (last.op = "deallocate" /\ last.ret_b) => ~is_alive(em, last.e)
    /\ \A h \in retired \cap issued : ~is_alive(em, h)

\* a retired handle whose slot has a new, alive occupant
C1_Witness ==
    \E h \in retired \cap issued : \E h2 \in issued :
        /\ h2.index = h.index
        /\ h2.generation > h.generation
        /\ is_alive(em, h2)

\* C2: a handle allocate returns for a slot has a strictly greater generation
\* than every handle allocate returned for that slot before.
C2_FreshnessAfterReuse ==
    [][last'.op = "allocate" =>
          \A h \in issued :
              h.index = last'.ret_e.index =>
                  last'.ret_e.generation > h.generation]_vars

\* allocate has just reused a slot that had an earlier occupant
C2_Witness ==
    /\ last.op = "allocate"
    /\ \E h \in issued :
          h.index = last.ret_e.index /\ h.generation < last.ret_e.generation

\* C3: deallocate is idempotent on allocated handles: a second deallocate of
\* the same handle leaves the manager as the first one left it.
C3_IdempotentDeallocate ==
    /\ \A h \in issued :
          deallocate(deallocate(em, h), h) = deallocate(em, h)
    /\ (last.op = "deallocate" /\ ~last.panic /\ last.e \in issued) =>
          deallocate(em, last.e) = em

\* a deallocate has just retired an alive allocated handle
C3_Witness ==
    /\ last.op = "deallocate"
    /\ last.ret_b
    /\ last.e \in issued

\* C4: deallocate of an in-range handle whose generation differs from the
\* slot's current one changes nothing and does not panic, for the call made
\* (a handle allocate returned earlier for the slot) and for the handles
\* Entity::new can build with a generation the slot has not reached; with
\* the manager unchanged the slot's occupant stays alive.
C4_StaleDeallocateNoOp ==
    [][/\ (/\ last'.op = "deallocate"
           /\ InBounds(em.generations, last'.e.index)
           /\ last'.e.generation # GenOf(last'.e)) =>
              /\ ~last'.panic
              /\ em' = em
       /\ (/\ last'.op = "deallocate"
           /\ InBounds(em.generations, last'.e.index)) =>
              \A g \in (GenOf(last'.e) + 1)..MaxGen :
                  deallocate(em, Entity_new(last'.e.index, g)) = em]_vars

\* an old handle was deallocated while the slot's new occupant is alive
C4_Witness ==
    /\ last.op = "deallocate"
    /\ ~last.panic
    /\ ~last.ret_b
    /\ \E h \in issued :
          /\ h.index = last.e.index
          /\ h.generation > last.e.generation
          /\ is_alive(em, h)
          /\ h.index \notin FreeSlots(em)

\* C5: allocate pops the most recently deallocated slot that has not been
\* reallocated; with no such slot the free list holds only the initial
\* slot 0, which is therefore handed out before anything was freed.
C5_LastFreedFirst ==
    [][(last'.op = "allocate" /\ em.first_free # None) =>
          /\ freed # <<>> => last'.ret_e.index = freed[Len(freed)]
          /\ freed = <<>> => last'.ret_e = Entity_new(0, 0)
          /\ last'.ret_e = Entity_new(0, 0) => freed = <<>>]_vars

\* allocate reused a slot while an earlier freed slot stays on the list
C5_Witness ==
    /\ last.op = "allocate"
    /\ last.ret_e.generation > 0
    /\ freed # <<>>
    /\ em.first_free = Some(freed[Len(freed)])

\* C6: for every in-range handle, issued or built with Entity::new, is_alive
\* holds exactly when the handle is valid: its slot is not reachable from
\* first_free and its generation is the slot's current generation.
C6_AliveIffValid ==
    \A h \in Forgeable :
        InBounds(em.generations, h.index) =>
            (is_alive(em, h) <=>
                (h.index \notin FreeSlots(em) /\ h.generation = GenOf(h)))

\* C7: deallocate of an in-range handle whose slot is on the free list
\* leaves the manager unchanged, so a free slot is not pushed a second time.
C7_FreeSlotNotPushedTwice ==
    [][(/\ last'.op = "deallocate"
        /\ InBounds(em.generations, last'.e.index)
        /\ last'.e.index \in FreeSlots(em)) => em' = em]_vars

\* C8: the table length never decreases: deallocate keeps it and allocate
\* keeps it or adds one.
C8_MonotonicSlotGrowth ==
    [][/\ Len(em'.generations) >= Len(em.generations)
       /\ last'.op = "deallocate" =>
              Len(em'.generations) = Len(em.generations)
       /\ last'.op = "allocate" =>
              Len(em'.generations) \in
                  {Len(em.generations), Len(em.generations) + 1}]_vars

\* the entity of the last slot of a grown table has just been retired
C8_Witness ==
    /\ last.op = "deallocate"
    /\ last.ret_b
    /\ Len(em.generations) > 1
    /\ last.e.index + 1 = Len(em.generations)

\* C9: generations and free_entities have the same length, at least 1.
C9_TablesSameLength ==
    /\ Len(em.generations) = Len(em.free_entities)
    /\ Len(em.generations) >= 1

\* allocate has just grown the tables
C9_Witness ==
    /\ last.op = "allocate"
    /\ last.ret_e.index + 1 = Len(em.generations)
    /\ Len(em.generations) > 1

\* C10: get on an allocated handle returns the value last written to its
\* slot by set / get_mut, whatever the allocator did in between, also when
\* the handle has been deallocated.
C10_StoreIndependentOfLiveness ==
    /\ \A h \in issued :
          h.index \in DOMAIN written =>
              /\ InBounds(comp.values, h.index)
              /\ get(comp, h) = written[h.index]
    /\ (last.op = "get" /\ last.e.index \in DOMAIN written) =>
          /\ ~last.panic
          /\ last.ret_v = written[last.e.index]

\* get has just read a written value through a handle that is now stale
C10_Witness ==
    /\ last.op = "get"
    /\ ~last.panic
    /\ last.e \in retired
    /\ ~is_alive(em, last.e)
    /\ last.e.index \in DOMAIN written
    /\ last.ret_v # Default

\* C11: no allocator call changes the store, and a handle allocate returns
\* for a reused slot reads the value the slot's earlier occupant left there.
C11_ValuesSurviveReuse ==
    [][/\ last'.op \in {"allocate", "deallocate"} => comp' = comp
       /\ (last'.op = "allocate" /\ last'.ret_e.index \in DOMAIN written) =>
              /\ InBounds(comp'.values, last'.ret_e.index)
              /\ get(comp', last'.ret_e) = written[last'.ret_e.index]
       /\ (/\ last'.op = "get"
           /\ ~last'.panic
           /\ last'.e.index \in DOMAIN written) =>
              last'.ret_v = written[last'.e.index]]_vars

\* a slot written through an earlier handle was reallocated and the new
\* handle reads the old, non-default value
C11_Witness ==
    /\ last.op = "get"
    /\ ~last.panic
    /\ last.e.generation > 0
    /\ is_alive(em, last.e)
    /\ last.ret_v # Default
    /\ \E h \in retired : h.index = last.e.index

\* C12: is_alive and deallocate panic exactly when the handle's index is not
\* below the table length, get and get_mut exactly when it is not below
\* values.len(); a panicking call changes nothing and get never grows the
\* store.
C12_OutOfBoundsPanics ==
    [][/\ last'.op \in {"is_alive", "deallocate"} =>
              (last'.panic <=> ~InBounds(em.generations, last'.e.index))
       /\ last'.op \in {"get", "get_mut"} =>
              (last'.panic <=> ~InBounds(comp.values, last'.e.index))
       /\ last'.op \in {"get", "is_alive"} => (em' = em /\ comp' = comp)
       /\ last'.panic => (em' = em /\ comp' = comp)]_vars

\* a call has panicked on a handle whose index no table entry has
C12_Witness ==
    /\ last.panic
    /\ \/ last.op \in {"is_alive", "deallocate"}
          /\ last.e.index >= Len(em.generations)
       \/ last.op \in {"get", "get_mut"}
          /\ last.e.index >= Len(comp.values)
          /\ last.e \in issued

\* the handles of tests::test_em
E1 == Entity_new(0, 0)
E2 == Entity_new(1, 0)
E3 == Entity_new(2, 0)

\* C13: from a fresh manager three allocates return (0,0), (1,0), (2,0) and
\* leave three slots; deallocate(e2) leaves e1 and e3 alive and e2 not;
\* deallocate(e1) then leaves only e3 alive, three slots and first_free =
\* Some(0); the next allocate returns (0,1) and leaves first_free = Some(1).
C13_Scenario ==
    [][/\ (issued = {} /\ last'.op = "allocate") =>
              /\ em = [free_entities |-> <<None>>, generations |-> <<0>>,
                       first_free |-> Some(0)]
              /\ last'.ret_e = E1
       /\ (issued = {E1} /\ retired = {} /\ last'.op = "allocate") =>
              last'.ret_e = E2
       /\ (issued = {E1, E2} /\ retired = {} /\ last'.op = "allocate") =>
              /\ last'.ret_e = E3
              /\ Len(em'.free_entities) = 3
              /\ Len(em'.generations) = 3
       /\ (/\ issued = {E1, E2, E3} /\ retired = {}
           /\ last'.op = "deallocate" /\ last'.e = E2) =>
              /\ is_alive(em', E1)
              /\ ~is_alive(em', E2)
              /\ is_alive(em', E3)
       /\ (/\ issued = {E1, E2, E3} /\ retired = {E2}
           /\ last'.op = "deallocate" /\ last'.e = E1) =>
              /\ ~is_alive(em', E1)
              /\ ~is_alive(em', E2)
              /\ is_alive(em', E3)
              /\ Len(em'.free_entities) = 3
              /\ em'.first_free = Some(0)
       /\ (/\ issued = {E1, E2, E3} /\ retired = {E1, E2} /\ freed = <<1, 0>>
           /\ last'.op = "allocate") =>
              /\ last'.ret_e = Entity_new(0, 1)
              /\ is_alive(em', last'.ret_e)
              /\ em'.first_free = Some(1)]_vars

\* the end of the scenario: slot 0 reallocated, slot 1 still free
C13_Witness ==
    /\ last.op = "allocate"
    /\ last.ret_e = Entity_new(0, 1)
    /\ issued = {E1, E2, E3, Entity_new(0, 1)}
    /\ retired = {E1, E2}
    /\ freed = <<1>>
    /\ em.first_free = Some(1)

\* C14: deallocate of an alive handle of slot i sets free_entities[i] to the
\* previous first_free, first_free to Some(i) and adds one to
\* generations[i]; the other entries and the lengths stay.
C14_DeallocatePushes ==
    [][(/\ last'.op = "deallocate"
        /\ InBounds(em.generations, last'.e.index)
        /\ is_alive(em, last'.e)) =>
           LET i == last'.e.index IN
           /\ At(em'.free_entities, i) = em.first_free
           /\ em'.first_free = Some(i)
           /\ At(em'.generations, i) = At(em.generations, i) + 1
           /\ Len(em'.generations) = Len(em.generations)
           /\ Len(em'.free_entities) = Len(em.free_entities)
           /\ \A j \in 0..(Len(em.generations) - 1) :
                  j # i =>
                      /\ At(em'.generations, j) = At(em.generations, j)
                      /\ At(em'.free_entities, j) = At(em.free_entities, j)]_vars

\* an alive handle was retired while another slot was already free
C14_Witness ==
    /\ last.op = "deallocate"
    /\ last.ret_b
    /\ em.first_free = Some(last.e.index)
    /\ At(em.free_entities, last.e.index) # None
    /\ Len(freed) >= 2

\* C15: allocate with first_free = Some(i) returns (i, generations[i]), sets
\* first_free to free_entities[i] and changes no table entry and no length.
C15_AllocatePops ==
    [][(last'.op = "allocate" /\ em.first_free # None) =>
           LET i == em.first_free[1] IN
           /\ last'.ret_e = Entity_new(i, At(em.generations, i))
           /\ em'.first_free = At(em.free_entities, i)
           /\ em'.generations = em.generations
           /\ em'.free_entities = em.free_entities]_vars

\* a slot was popped and its link still names the new head
C15_Witness ==
    /\ last.op = "allocate"
    /\ last.ret_e.generation > 0
    /\ em.first_free # None
    /\ At(em.free_entities, last.ret_e.index) = em.first_free
    /\ last.ret_e.index \notin FreeSlots(em)

\* C16: allocate with first_free = None returns (n, 0) for the old length n,
\* appends generation 0 and link None, keeps first_free = None and keeps the
\* entries of the old slots; allocate never panics.
C16_AllocateAppends ==
    [][/\ last'.op = "allocate" => ~last'.panic
       /\ (last'.op = "allocate" /\ em.first_free = None) =>
              LET n == Len(em.generations) IN
              /\ last'.ret_e = Entity_new(n, 0)
              /\ em'.generations = Append(em.generations, 0)
              /\ em'.free_entities = Append(em.free_entities, None)
              /\ Len(em'.generations) = n + 1
              /\ em'.first_free = None]_vars

\* allocate has grown the tables after a slot had been retired and reused
C16_Witness ==
    /\ last.op = "allocate"
    /\ last.ret_e.index + 1 = Len(em.generations)
    /\ last.ret_e.generation = 0
    /\ last.ret_e.index > 0
    /\ em.first_free = None
    /\ retired # {}

\* C17: set(h, v) makes the length max(old length, h.index + 1), puts the
\* default in every new entry but h.index, writes v at h.index and keeps
\* every other old entry; no call shortens the store and set never panics.
C17_SetGrowsAndWrites ==
    [][/\ Len(comp'.values) >= Len(comp.values)
       /\ last'.op = "set" =>
              LET i == last'.e.index
                  old == Len(comp.values)
              IN /\ ~last'.panic
                 /\ Len(comp'.values) = Max(old, i + 1)
                 /\ At(comp'.values, i) = last'.v
                 /\ \A j \in 0..(Len(comp'.values) - 1) :
                        j # i =>
                            At(comp'.values, j) =
                                IF j < old THEN At(comp.values, j) ELSE Default]_vars

\* set has grown the store by two entries, leaving a default before the
\* written one
C17_Witness ==
    /\ last.op = "set"
    /\ last.e.index = 1
    /\ Len(comp.values) = 2
    /\ last.v # Default
    /\ comp.values = <<Default, last.v>>
    /\ 0 \notin DOMAIN written

\* the slots met from link on, following free_entities for at most fuel
\* steps; -1 marks a link out of range or a walk that ran out of fuel
RECURSIVE Chain(_, _, _)
Chain(self, link, fuel) ==
    IF link = None
    THEN <<>>
    ELSE IF fuel = 0 \/ ~InBounds(self.free_entities, link[1])
         THEN <<-1>>
         ELSE <<link[1]>> \o
              Chain(self, At(self.free_entities, link[1]), fuel - 1)

FreeChain(self) == Chain(self, self.first_free, Len(self.free_entities))

\* handles allocate returned on which no deallocate has succeeded
Held == issued \ retired

\* C18: the chain from first_free ends at None, names only slots of the
\* table, names no slot twice, and no slot on it has a held handle of the
\* slot's current generation.
C18_FreeListWellFormed ==
    LET c == FreeChain(em) IN
    /\ \A k \in 1..Len(c) : c[k] \in 0..(Len(em.generations) - 1)
    /\ \A k, m \in 1..Len(c) : k # m => c[k] # c[m]
    /\ \A k \in 1..Len(c) :
          ~\E h \in Held : h.index = c[k] /\ h.generation = At(em.generations, c[k])

\* two retired slots are chained while another handle is held
C18_Witness ==
    /\ Len(FreeChain(em)) >= 2
    /\ Held # {}
    /\ last.op = "deallocate"
    /\ last.ret_b

\* C19: two different held handles never name the same slot, and allocate
\* never returns a handle it has returned before.
C19_NoDoubleAllocation ==
    [][/\ last'.op = "allocate" => last'.ret_e \notin issued
       /\ \A h1, h2 \in issued' \ retired' :
              h1 # h2 => h1.index # h2.index
       /\ \A h \in issued' \ retired' : is_alive(em', h)]_vars

\* a reused slot and a second slot are held at the same time
C19_Witness ==
    /\ last.op = "allocate"
    /\ last.ret_e.generation > 0
    /\ Cardinality(Held) >= 2

\* C20: the free slots and the held handles together make up the table, and
\* the table length is the largest number of handles ever held at once, or
\* 1 when none was.
C20_TableIsHighWaterMark ==
    /\ Cardinality(FreeSlots(em)) + Cardinality(Held) = Len(em.generations)
    /\ Len(FreeChain(em)) = Cardinality(FreeSlots(em))
    /\ Len(em.generations) = Max(1, peak)

\* the table has grown to its peak and some slots are free again
C20_Witness ==
    /\ Len(em.generations) >= 3
    /\ Cardinality(Held) = 1
    /\ Cardinality(FreeSlots(em)) >= 2
    /\ peak = Len(em.generations)

====
